---- MODULE Spec2Model ----
(***************************************************************************)
(* Drift routing and fact provenance engine of driftos-core.               *)
(*                                                                         *)
(*   SpecMerge  the fact map of one ephemeral branch under branch          *)
(*              creation and mergeFacts                                    *)
(*   SpecParse  parseResponse as a function of the classifier response     *)
(*   SpecEph    one conversation served by the /demo/route handler         *)
(*   SpecPers   one conversation routed through the persisted pipeline     *)
(*   SpecCentroid  calculateCentroid as a function of its arguments         *)
(*   SpecBoth   the same conversation given to both modes in turn           *)
(*   SpecMany   a long conversation in which every message opens a branch   *)
(*   SpecOverlap  two /demo/route requests for one conversation in flight   *)
(***************************************************************************)
EXTENDS Integers, Sequences, FiniteSets, TLC

VARIABLES
    facts,        \* EphemeralBranch.facts of one branch: key -> value entries
    factsOnce,    \* the same map after the last payload was applied once
    mergeOp,      \* the operation that produced facts
    mergeKind,    \* the paths (key, create/update) the last payload took
    mergeNamed,   \* the (key, value) pairs the last payload asked to supersede
    mergeMsg,     \* the message id the last payload was merged under
    parsePc,      \* "idle", "in" (arguments chosen) or "out" (result computed)
    parseIn,      \* arguments of one parseResponse call
    parseOut,     \* its result
    ephReqs,      \* the /demo/route requests that may run
    ephInput,     \* the client's message list, as sent with the last request
    ephCache,     \* conversationStateCache entry of the conversation
    ephHeap,      \* the branches/messages arrays, by reference
    ephCall,      \* per request: position and locals of processEphemeralConversation
    ephFailures,  \* requests that ended in an error so far
    dbConv,       \* the conversation row of the durable store
    dbBranches,   \* branch rows, in creation order
    dbMessages,   \* message rows, in creation order
    dbFacts,      \* fact rows
    dbClock,      \* source of the updatedAt stamps
    dbAtStart,    \* the store as it was when the running request arrived
    persReq,      \* the DriftContext of the running pipeline and its stage
    persResult,   \* what the last pipeline run returned to its caller
    persJobs,     \* fact re-extractions started and not yet finished
    cenPc,        \* "in" (arguments chosen) or "out" (result computed)
    cenIn,        \* arguments of one calculateCentroid call
    cenOut,       \* its result
    script        \* the message and decision both modes are given next

mergeVars == <<facts, factsOnce, mergeOp, mergeKind, mergeNamed, mergeMsg>>
parseVars == <<parsePc, parseIn, parseOut>>
ephVars == <<ephReqs, ephInput, ephCache, ephHeap, ephCall, ephFailures>>
dbVars == <<dbConv, dbBranches, dbMessages, dbFacts, dbClock>>
persVars == <<dbConv, dbBranches, dbMessages, dbFacts, dbClock, dbAtStart,
             persReq, persResult, persJobs>>
auxVars == <<cenPc, cenIn, cenOut, script>>
vars == <<facts, factsOnce, mergeOp, mergeKind, mergeNamed, mergeMsg,
         parsePc, parseIn, parseOut,
         ephReqs, ephInput, ephCache, ephHeap, ephCall, ephFailures,
         dbConv, dbBranches, dbMessages, dbFacts, dbClock, dbAtStart,
         persReq, persResult, persJobs, cenPc, cenIn, cenOut, script>>

----------------------------------------------------------------------------
(* Bounds                                                                  *)

MaxFacts == 1        \* facts in one classifier payload
MaxValues == 2       \* values of one extracted fact
MaxOthers == 2       \* entries of the "other branches" list
MaxIndexLen == 2     \* characters of the classifier's targetBranchId
MaxMsgs == 3         \* messages of one conversation
MaxManyMsgs == 12    \* messages of one conversation in SpecMany
MaxFailures == 1     \* failed requests of one conversation

Keys == {"k"}
Values == {"a", "b"}
MessageIds == {"m1", "m2"}
Confidences == {9}
SupersedeLists == {<<>>, <<"a">>, <<"b">>, <<"b", "a">>}

NoMsg == "none"
None == "none"

SeqsUpTo(S, n) == UNION {[1..k -> S] : k \in 0..n}

----------------------------------------------------------------------------
(* Fact merge: ephemeral.ts mergeFacts and the BRANCH conversion           *)

NewValues == [value : Values, confidence : Confidences, supersedes : SupersedeLists]
ExtractedFacts == [key : Keys, isUpdate : BOOLEAN, values : SeqsUpTo(NewValues, MaxValues)]
Payloads == SeqsUpTo(ExtractedFacts, MaxFacts)

ActiveEntry(v, messageId) ==
    [value |-> v.value, messageId |-> messageId, confidence |-> v.confidence,
     status |-> "active", supersededBy |-> NoMsg]

\* findIndex without the `ev.status === 'active'` conjunct
findIndexAnyStatus(existingValues, supersededValue) ==
    LET hits == {i \in 1..Len(existingValues) :
                    existingValues[i].value = supersededValue}
    IN IF hits = {} THEN 0 ELSE CHOOSE i \in hits : \A j \in hits : i <= j

\* existingValues.findIndex(ev => ev.value === supersededValue && ev.status === 'active')
findIndexActive(existingValues, supersededValue) ==
    LET hits == {i \in 1..Len(existingValues) :
                    /\ existingValues[i].value = supersededValue
                    /\ existingValues[i].status = "active"}
    IN IF hits = {} THEN 0 ELSE CHOOSE i \in hits : \A j \in hits : i <= j

supersedeOne(existingValues, supersededValue, messageId) ==
    LET targetIndex == findIndexActive(existingValues, supersededValue)
    IN IF targetIndex # 0
       THEN [existingValues EXCEPT ![targetIndex].status = "superseded",
                                   ![targetIndex].supersededBy = messageId]
       ELSE existingValues

RECURSIVE supersedeAll(_, _, _)
supersedeAll(existingValues, supersedes, messageId) ==
    IF supersedes = <<>> THEN existingValues
    ELSE supersedeAll(supersedeOne(existingValues, Head(supersedes), messageId),
                      Tail(supersedes), messageId)

\* one iteration of `for (const newValue of fact.values)`
mergeValue(existingValues, newValue, messageId) ==
    LET afterSup == supersedeAll(existingValues, newValue.supersedes, messageId)
        isDuplicate == \E i \in 1..Len(afterSup) : afterSup[i].value = newValue.value
    IN IF ~isDuplicate THEN Append(afterSup, ActiveEntry(newValue, messageId))
       ELSE afterSup

RECURSIVE mergeValues(_, _, _)
mergeValues(existingValues, values, messageId) ==
    IF values = <<>> THEN existingValues
    ELSE mergeValues(mergeValue(existingValues, Head(values), messageId),
                     Tail(values), messageId)

freshValues(values, messageId) ==
    [i \in 1..Len(values) |-> ActiveEntry(values[i], messageId)]

SetKey(f, k, v) == [x \in (DOMAIN f) \cup {k} |-> IF x = k THEN v ELSE f[x]]

\* one iteration of `for (const fact of newFacts)`
mergeFact(existingFacts, fact, messageId) ==
    IF fact.isUpdate /\ fact.key \in DOMAIN existingFacts
    THEN SetKey(existingFacts, fact.key,
                mergeValues(existingFacts[fact.key], fact.values, messageId))
    ELSE SetKey(existingFacts, fact.key, freshValues(fact.values, messageId))

RECURSIVE mergeFacts(_, _, _)
mergeFacts(existingFacts, newFacts, messageId) ==
    IF newFacts = <<>> THEN existingFacts
    ELSE mergeFacts(mergeFact(existingFacts, Head(newFacts), messageId),
                    Tail(newFacts), messageId)

\* factsRecord built for a new branch from classification.facts
RECURSIVE factsRecord(_, _, _)
factsRecord(acc, newFacts, messageId) ==
    IF newFacts = <<>> THEN acc
    ELSE factsRecord(SetKey(acc, Head(newFacts).key,
                            freshValues(Head(newFacts).values, messageId)),
                     Tail(newFacts), messageId)

EmptyFacts == [x \in {} |-> <<>>]

\* which path each fact of a payload takes against the map it meets
RECURSIVE pathsOf(_, _, _)
pathsOf(existingFacts, newFacts, messageId) ==
    IF newFacts = <<>> THEN {}
    ELSE LET fact == Head(newFacts)
         IN {<<fact.key, IF fact.isUpdate /\ fact.key \in DOMAIN existingFacts
                         THEN "update" ELSE "create">>}
            \cup pathsOf(mergeFact(existingFacts, fact, messageId), Tail(newFacts), messageId)

ActiveSet(f) ==
    UNION {{<<k, f[k][i].value>> : i \in {j \in 1..Len(f[k]) : f[k][j].status = "active"}} :
           k \in DOMAIN f}

\* the supersede requests of a payload, as (key, named value) pairs
namedOf(newFacts) ==
    UNION {UNION {{<<newFacts[n].key, newFacts[n].values[v].supersedes[s]>> :
                     s \in 1..Len(newFacts[n].values[v].supersedes)} :
                  v \in 1..Len(newFacts[n].values)} :
           n \in 1..Len(newFacts)}

----------------------------------------------------------------------------
(* parseResponse: classify-route/helpers/parse-response.ts                 *)

BranchIds == {"b1", "b2", "b3"}
Chars == {"0", "1", "2", "3", "x", " ", "-"}
Digits == {"0", "1", "2", "3"}
DigitVal(c) == CASE c = "0" -> 0 [] c = "1" -> 1 [] c = "2" -> 2 [] c = "3" -> 3 [] OTHER -> 0

FallbackTopic == "New Topic"
DefaultContext == "general conversation"
DefaultReason == "Unknown"
DefaultConfidence == 5

RECURSIVE skipWhitespace(_)
skipWhitespace(s) ==
    IF s # <<>> /\ Head(s) = " " THEN skipWhitespace(Tail(s)) ELSE s

RECURSIVE digitPrefix(_)
digitPrefix(s) ==
    IF s # <<>> /\ Head(s) \in Digits THEN <<Head(s)>> \o digitPrefix(Tail(s)) ELSE <<>>

RECURSIVE decimalValue(_)
decimalValue(ds) ==
    IF ds = <<>> THEN 0
    ELSE 10 * decimalValue(SubSeq(ds, 1, Len(ds) - 1)) + DigitVal(ds[Len(ds)])

\* parseInt(s, 10): leading whitespace is skipped, an optional sign is read,
\* then the longest run of decimal digits; NaN when that run is empty
parseInt(s) ==
    LET t == skipWhitespace(s)
        neg == t # <<>> /\ Head(t) = "-"
        body == IF neg THEN Tail(t) ELSE t
        ds == digitPrefix(body)
    IN IF ds = <<>> THEN [isNaN |-> TRUE, n |-> 0]
       ELSE [isNaN |-> FALSE, n |-> IF neg THEN 0 - decimalValue(ds) ELSE decimalValue(ds)]

\* `!isNaN(topicNumber) && topicNumber >= 1 && topicNumber <= otherBranches.length`
validTopicNumber(topicNumber, otherBranches) ==
    /\ ~topicNumber.isNaN
    /\ topicNumber.n >= 1
    /\ topicNumber.n <= Len(otherBranches)

\* the same-branch check left out
routesToCurrentSkipped(action, target, currentBranchId) == FALSE

\* `action === 'ROUTE' && targetBranchId === currentBranchId`
routesToCurrent(action, target, currentBranchId) ==
    /\ action = "ROUTE"
    /\ target.kind = "id"
    /\ target.id = currentBranchId

NoTarget == [kind |-> "none", raw |-> <<>>, id |-> None]
RawTarget(s) == IF s = <<>> THEN NoTarget ELSE [kind |-> "raw", raw |-> s, id |-> None]
IdTarget(b) == [kind |-> "id", raw |-> <<>>, id |-> b]

Threw == [threw |-> TRUE, action |-> None, targetBranchId |-> NoTarget,
          newBranchTopic |-> None, reason |-> None, confidence |-> 0,
          branchContext |-> None, facts |-> <<>>]

parseResponse(response, currentBranchId, otherBranches) ==
    IF response.kind # "ok" THEN Threw   \* JSON.parse or `wrapper.decision.action` throws
    ELSE
    LET raw == response.targetBranchId
        topic0 == IF response.action = "BRANCH" /\ response.newBranchTopic = ""
                  THEN FallbackTopic ELSE response.newBranchTopic
        topicNumber == parseInt(raw)
        mapped == response.action = "ROUTE" /\ raw # <<>>
        valid == validTopicNumber(topicNumber, otherBranches)
        action1 == IF mapped /\ ~valid THEN "BRANCH" ELSE response.action
        target1 == IF mapped
                   THEN (IF valid THEN IdTarget(otherBranches[topicNumber.n].id) ELSE NoTarget)
                   ELSE RawTarget(raw)
        topic1 == IF mapped /\ ~valid /\ topic0 = "" THEN FallbackTopic ELSE topic0
        noTarget == action1 = "ROUTE" /\ target1.kind = "none"
        action2 == IF noTarget THEN "BRANCH" ELSE action1
        topic2 == IF noTarget /\ topic1 = "" THEN FallbackTopic ELSE topic1
        self == routesToCurrent(action2, target1, currentBranchId)
        action3 == IF self THEN "STAY" ELSE action2
        target3 == IF self THEN NoTarget ELSE target1
    IN [threw |-> FALSE,
        action |-> action3,
        targetBranchId |-> target3,
        newBranchTopic |-> IF topic2 = "" THEN None ELSE topic2,
        reason |-> IF response.reason = "" THEN DefaultReason ELSE response.reason,
        confidence |-> IF response.confidence = 0 THEN DefaultConfidence
                       ELSE response.confidence,
        branchContext |-> IF response.branchContext = "" THEN DefaultContext
                          ELSE response.branchContext,
        facts |-> response.facts]

----------------------------------------------------------------------------
(* Classifier responses                                                    *)

Actions == {"STAY", "ROUTE", "BRANCH"}
\* `parsed.action as RouteAction` is a cast: any string may come back
AnyActions == Actions \cup {"OTHER"}
Topics == {"", "T"}
MetaFields == {[reason |-> "", confidence |-> 0, branchContext |-> ""],
               [reason |-> "why", confidence |-> 8, branchContext |-> "ctx"]}

Response(kind, a, t, n, m, f) ==
    [kind |-> kind, action |-> a, targetBranchId |-> t, newBranchTopic |-> n,
     reason |-> m.reason, confidence |-> m.confidence,
     branchContext |-> m.branchContext, facts |-> f]

NoMeta == [reason |-> "", confidence |-> 0, branchContext |-> ""]
BadJson == Response("badjson", None, <<>>, "", NoMeta, <<>>)
NoDecision == Response("nodecision", None, <<>>, "", NoMeta, <<>>)

IndexStrings == SeqsUpTo(Chars, MaxIndexLen)

ParseResponses ==
    {Response("ok", a, t, n, m, <<>>) :
        a \in AnyActions, t \in IndexStrings, n \in Topics, m \in MetaFields}
    \cup {BadJson, NoDecision}

IsInjective(q) == \A i, j \in 1..Len(q) : q[i] = q[j] => i = j
OtherLists ==
    {[i \in 1..Len(q) |-> [id |-> q[i]]] :
        q \in {r \in SeqsUpTo(BranchIds, MaxOthers) : IsInjective(r)}}

ParseInputs ==
    [response : ParseResponses, currentBranchId : BranchIds \cup {None},
     otherBranches : OtherLists]

----------------------------------------------------------------------------
(* classifyRoute: operations/classify-route/index.ts                       *)

\* how many messages a conversation is followed for
MsgLimit == IF script.phase = "many" THEN MaxManyMsgs ELSE MaxMsgs

Roles == {"user", "assistant"}
Contents == {"hi"}
InputMessages == [role : Roles, content : Contents]

\* content.slice(0, 100): every modelled content is shorter than the prefix
slice100(content) == content

AssistantReason == "Assistant messages stay in current branch"
MaxConfidence == 10

LlmError == Response("llmerror", None, <<>>, "", NoMeta, <<>>)

\* ctx.branches.find(b => b.isCurrentBranch)?.id
currentOf(summaries) ==
    LET hits == {i \in 1..Len(summaries) : summaries[i].isCurrentBranch}
    IN IF hits = {} THEN None
       ELSE summaries[CHOOSE i \in hits : \A j \in hits : i <= j].id

\* ctx.branches.filter(b => !b.isCurrentBranch)
IsOther(b) == ~b.isCurrentBranch
othersOf(summaries) == SelectSeq(summaries, IsOther)

\* the first-message safety check
mustForceBranch(currentBranchId, otherBranches, action) ==
    /\ currentBranchId = None
    /\ Len(otherBranches) = 0
    /\ action # "BRANCH"

classifyRoute(role, content, summaries, response) ==
    LET currentBranchId == currentOf(summaries)
        otherBranches == othersOf(summaries)
        classification == parseResponse(response, currentBranchId, otherBranches)
    IN IF role = "assistant"
       THEN [cls |-> [threw |-> FALSE, action |-> "STAY", targetBranchId |-> NoTarget,
                      newBranchTopic |-> None, reason |-> AssistantReason,
                      confidence |-> MaxConfidence, branchContext |-> None,
                      facts |-> <<>>],
             code |-> "assistant_auto_stay", called |-> FALSE, llm |-> None]
       ELSE IF classification.threw
       THEN [cls |-> Threw, code |-> "error", called |-> TRUE, llm |-> None]
       ELSE IF mustForceBranch(currentBranchId, otherBranches, classification.action)
       THEN [cls |-> [threw |-> FALSE, action |-> "BRANCH", targetBranchId |-> NoTarget,
                      newBranchTopic |-> IF classification.newBranchTopic # None
                                         THEN classification.newBranchTopic
                                         ELSE slice100(content),
                      reason |-> classification.reason,
                      confidence |-> classification.confidence,
                      branchContext |-> None, facts |-> <<>>],
             code |-> "first_message_forced_branch", called |-> TRUE,
             llm |-> response.action]
       ELSE [cls |-> classification,
             code |-> CASE classification.action = "STAY" -> "classified_stay"
                        [] classification.action = "ROUTE" -> "classified_route"
                        [] classification.action = "BRANCH" -> "classified_branch"
                        [] OTHER -> "classified_other",
             called |-> TRUE, llm |-> response.action]

----------------------------------------------------------------------------
(* Ephemeral mode: ephemeral.ts processEphemeralConversation and the       *)
(* /demo/route handler with its conversationStateCache                     *)

UnknownTopic == "Unknown"
DefaultBranchTopic == "New Conversation"
DefaultBranchContext == "new conversation"

branchIdOf(n) == "conv-branch-" \o ToString(n)
messageIdOf(i) == "conv-msg-" \o ToString(i)

\* branches.find(b => b.id === id), as an index (0: not found)
findBranch(branches, id) ==
    LET hits == {i \in 1..Len(branches) : branches[i].id = id}
    IN IF hits = {} THEN 0 ELSE CHOOSE i \in hits : \A j \in hits : i <= j

topicOf(branches, id) ==
    LET b == findBranch(branches, id)
    IN IF b = 0 \/ branches[b].topic = "" THEN UnknownTopic ELSE branches[b].topic

countIn(messages, id) == Cardinality({i \in 1..Len(messages) : messages[i].branchId = id})

ephSummaries(branches, currentBranchId) ==
    [i \in 1..Len(branches) |->
        [id |-> branches[i].id, summary |-> branches[i].topic,
         context |-> branches[i].context,
         isCurrentBranch |-> branches[i].id = currentBranchId,
         messageCount |-> branches[i].messageCount,
         factKeys |-> DOMAIN branches[i].facts]]

\* the `branch.messageCount++` left out
bumpCountSkipped(branches, id) == branches

\* `if (branch) branch.messageCount++`
bumpCount(branches, id) ==
    LET b == findBranch(branches, id)
    IN IF b = 0 THEN branches
       ELSE [branches EXCEPT ![b].messageCount = branches[b].messageCount + 1]

\* the `msg.role === 'assistant'` arm of the loop
assistantMessage(st, msg, messageIndex) ==
    [branches |-> bumpCount(st.branches, st.cur),
     messages |-> Append(st.messages,
                     [id |-> messageIdOf(messageIndex), role |-> "assistant",
                      content |-> msg.content, branchId |-> st.cur,
                      branchTopic |-> topicOf(st.branches, st.cur), action |-> "STAY"]),
     cur |-> st.cur]

\* context and facts of the branch a STAY or ROUTE lands in
landIn(branches, messages, b, classification, messageId) ==
    [branches EXCEPT
        ![b].context = classification.branchContext,
        ![b].facts = mergeFacts(branches[b].facts, classification.facts, messageId),
        ![b].lastFactExtractionIndex = countIn(messages, branches[b].id) + 1]

newBranch(branches, cur, msg, classification, messageId) ==
    [id |-> branchIdOf(Len(branches)),
     topic |-> IF classification.newBranchTopic # None
               THEN classification.newBranchTopic ELSE slice100(msg.content),
     context |-> classification.branchContext,
     parentId |-> cur,
     messageCount |-> 0,
     facts |-> factsRecord(EmptyFacts, classification.facts, messageId),
     lastFactExtractionIndex |-> 1]

\* the rest of the loop body, once classifyRoute has returned
routeMessage(st, msg, messageIndex, classification) ==
    LET messageId == messageIdOf(messageIndex)
        t == IF classification.targetBranchId.kind = "id"
             THEN findBranch(st.branches, classification.targetBranchId.id) ELSE 0
        c == findBranch(st.branches, st.cur)
        routed ==
            IF classification.action = "BRANCH"
            THEN LET nb == newBranch(st.branches, st.cur, msg, classification, messageId)
                 IN [branches |-> Append(st.branches, nb), target |-> nb.id, cur |-> nb.id]
            ELSE IF classification.action = "ROUTE"
                    /\ classification.targetBranchId.kind # "none"
            THEN IF t # 0
                 THEN [branches |-> landIn(st.branches, st.messages, t, classification,
                                           messageId),
                       target |-> st.branches[t].id, cur |-> st.branches[t].id]
                 ELSE [branches |-> st.branches, target |-> st.cur, cur |-> st.cur]
            ELSE [branches |-> IF c # 0
                               THEN landIn(st.branches, st.messages, c, classification,
                                           messageId)
                               ELSE st.branches,
                  target |-> st.cur, cur |-> st.cur]
    IN [branches |-> bumpCount(routed.branches, routed.target),
        messages |-> Append(st.messages,
                        [id |-> messageId, role |-> msg.role, content |-> msg.content,
                         branchId |-> routed.target,
                         branchTopic |-> topicOf(routed.branches, routed.target),
                         action |-> classification.action]),
        cur |-> routed.cur]

\* the loop up to the next user message: assistant messages need no await
RECURSIVE runAssistants(_, _, _)
runAssistants(st, msgs, i) ==
    IF i < Len(msgs) /\ msgs[i + 1].role = "assistant"
    THEN runAssistants(assistantMessage(st, msgs[i + 1], i), msgs, i + 1)
    ELSE [st |-> st, i |-> i]

defaultBranch ==
    [id |-> branchIdOf(0), topic |-> DefaultBranchTopic, context |-> DefaultBranchContext,
     parentId |-> None, messageCount |-> 0, facts |-> EmptyFacts,
     lastFactExtractionIndex |-> 0]

\* the safety check left out
safetyCheckSkipped(st) == st

\* the safety check after the loop
safetyCheck(st) ==
    IF st.cur = None /\ Len(st.branches) = 0
    THEN [st EXCEPT !.branches = <<defaultBranch>>, !.cur = defaultBranch.id]
    ELSE IF st.cur = None /\ Len(st.branches) > 0
    THEN [st EXCEPT !.cur = st.branches[1].id]
    ELSE st

AllRequests == {"r1", "r2"}
Refs == 0..Cardinality(AllRequests)

EmptyArrays == [branches |-> <<>>, messages |-> <<>>]
IdleCall == [pc |-> "idle", ref |-> 0, msgs |-> <<>>, i |-> 0, cur |-> None,
             extract |-> FALSE, ctx |-> <<>>]
NoCache == [exists |-> FALSE, ref |-> 0, currentBranchId |-> None,
            lastProcessedIndex |-> 0]

\* the facts a classifier may extract in ephemeral runs
EphPayloads ==
    {<<>>,
     <<[key |-> "k", isUpdate |-> TRUE,
        values |-> <<[value |-> "a", confidence |-> 9, supersedes |-> <<>>],
                     [value |-> "b", confidence |-> 9, supersedes |-> <<"a">>]>>]>>}
EphIndexes == {<<>>, <<"1">>, <<"2">>}
FullMeta == [reason |-> "why", confidence |-> 8, branchContext |-> "ctx"]
RoutingMeta == [reason |-> "why", confidence |-> 8, branchContext |-> ""]

\* what the classifier may answer: the routing-only schema has no facts and no context
EphResponses(extract) ==
    IF extract
    THEN {Response("ok", a, t, n, FullMeta, f) :
             a \in AnyActions, t \in EphIndexes, n \in Topics, f \in EphPayloads}
    ELSE {Response("ok", a, t, n, RoutingMeta, <<>>) :
             a \in AnyActions, t \in EphIndexes, n \in Topics}
EphFailures == {BadJson, NoDecision, LlmError}

refsInUse(cache, call) ==
    (IF cache.exists THEN {cache.ref} ELSE {})
    \cup {call[r].ref : r \in {q \in AllRequests : call[q].pc # "idle"}}

freshRef(cache, call) ==
    CHOOSE x \in Refs \ refsInUse(cache, call) :
        \A y \in Refs \ refsInUse(cache, call) : x <= y

\* arrays no state object refers to any more are dropped
collect(heap, cache, call) ==
    [x \in Refs |-> IF x \in refsInUse(cache, call) THEN heap[x] ELSE EmptyArrays]

\* runs the loop from message i to the next await or to the return statement
advance(r, ref, st0, msgs, i0, extract) ==
    LET run == runAssistants(st0, msgs, i0)
        done == run.i = Len(msgs)
        st == IF done THEN safetyCheck(run.st) ELSE run.st
        cache1 == IF done
                  THEN [exists |-> TRUE, ref |-> ref, currentBranchId |-> st.cur,
                        lastProcessedIndex |-> Len(msgs)]
                  ELSE ephCache
        call1 == [ephCall EXCEPT ![r] =
                    IF done THEN IdleCall
                    ELSE [pc |-> "await", ref |-> ref, msgs |-> msgs, i |-> run.i,
                          cur |-> st.cur, extract |-> extract,
                          ctx |-> ephSummaries(st.branches, st.cur)]]
        heap1 == [ephHeap EXCEPT ![ref] = [branches |-> st.branches,
                                           messages |-> st.messages]]
    IN /\ ephCache' = cache1
       /\ ephCall' = call1
       /\ ephHeap' = collect(heap1, cache1, call1)

\* every call starts from empty arrays
previousArraysIgnored(cache, heap) == EmptyArrays

\* `previousState?.branches ?? []`, `previousState?.messages ?? []`: the arrays
\* of the previous state are taken over, not copied
previousArrays(cache, heap) ==
    IF cache.exists THEN heap[cache.ref] ELSE EmptyArrays

\* POST /demo/route: reads the cache, starts processEphemeralConversation and
\* runs it to its first classifier call, or to the end when none is needed
EphRequest(r, newMsgs, extract) ==
    /\ r \in ephReqs
    /\ ephCall[r].pc = "idle"
    /\ Len(ephInput) + Len(newMsgs) <= MsgLimit
    /\ ephInput' = ephInput \o newMsgs
    /\ LET ref == IF ephCache.exists THEN ephCache.ref ELSE freshRef(ephCache, ephCall)
           arrays == previousArrays(ephCache, ephHeap)
           st0 == [branches |-> arrays.branches, messages |-> arrays.messages,
                   cur |-> ephCache.currentBranchId]
       IN advance(r, ref, st0, ephInput', ephCache.lastProcessedIndex, extract)
    /\ UNCHANGED <<ephReqs, ephFailures>>
    /\ UNCHANGED <<mergeVars, parseVars, persVars>>

\* the classifier answers: the message is routed and the loop runs on
EphClassified(r, response) ==
    /\ ephCall[r].pc = "await"
    /\ response \in EphResponses(ephCall[r].extract)
    /\ LET c == ephCall[r]
           msg == c.msgs[c.i + 1]
           res == classifyRoute(msg.role, msg.content, c.ctx, response)
           st0 == [branches |-> ephHeap[c.ref].branches,
                   messages |-> ephHeap[c.ref].messages, cur |-> c.cur]
           st1 == routeMessage(st0, msg, c.i, res.cls)
       IN advance(r, c.ref, st1, c.msgs, c.i + 1, c.extract)
    /\ UNCHANGED <<ephReqs, ephInput, ephFailures>>
    /\ UNCHANGED <<mergeVars, parseVars, persVars>>

\* the classifier call or parseResponse throws: the handler answers 500 and
\* stores nothing
EphClassifyFailed(r, response) ==
    /\ ephCall[r].pc = "await"
    /\ response \in EphFailures
    /\ ephFailures < MaxFailures
    /\ classifyRoute("user", ephCall[r].msgs[ephCall[r].i + 1].content,
                     ephCall[r].ctx, response).cls.threw
    /\ ephFailures' = ephFailures + 1
    /\ ephCall' = [ephCall EXCEPT ![r] = IdleCall]
    /\ ephHeap' = collect(ephHeap, ephCache, ephCall')
    /\ UNCHANGED <<ephReqs, ephInput, ephCache>>
    /\ UNCHANGED <<mergeVars, parseVars, persVars>>

----------------------------------------------------------------------------
(* Persisted mode: orchestrator.ts and the operations validate-input,      *)
(* load-branches, classify-route, execute-route; facts save-facts          *)

DefaultMaxBranches == 10
NoSummary == "No summary"

NoConv == [exists |-> FALSE, lastActiveBranchId |-> None]
persBranchId(n) == "b" \o ToString(n)
persMessageId(n) == "m" \o ToString(n)

\* `s?.trim()` is empty
IsBlank(s) == s \in {"", " "}

\* the checks with content looked at before conversationId
validationErrorContentFirst(input) ==
    IF IsBlank(input.content) THEN "content is required"
    ELSE IF IsBlank(input.conversationId) THEN "conversationId is required"
    ELSE IF input.role \notin {"user", "assistant"}
    THEN "role must be \"user\" or \"assistant\""
    ELSE IF input.userId = "" THEN "userId is required for authenticated requests"
    ELSE ""

\* the first failing check of validateInput, "" when all pass
validationError(input) ==
    IF IsBlank(input.conversationId) THEN "conversationId is required"
    ELSE IF IsBlank(input.content) THEN "content is required"
    ELSE IF input.role \notin {"user", "assistant"}
    THEN "role must be \"user\" or \"assistant\""
    ELSE IF input.userId = "" THEN "userId is required for authenticated requests"
    ELSE ""

\* create without the findUnique: an existing row is overwritten
ensureConversationAlways(conv) == [exists |-> TRUE, lastActiveBranchId |-> None]

\* findUnique, then create when the row is missing
ensureConversation(conv) ==
    IF conv.exists THEN conv ELSE [exists |-> TRUE, lastActiveBranchId |-> None]

\* orderBy: { updatedAt: 'desc' }
RECURSIVE byUpdatedDesc(_)
byUpdatedDesc(rows) ==
    IF rows = {} THEN <<>>
    ELSE LET top == CHOOSE r \in rows : \A q \in rows : q.updatedAt <= r.updatedAt
         IN <<top>> \o byUpdatedDesc(rows \ {top})

rowsOf(q) == {q[i] : i \in 1..Len(q)}
firstN(q, n) == SubSeq(q, 1, IF Len(q) < n THEN Len(q) ELSE n)

messagesIn(messages, branchId) ==
    Cardinality({i \in 1..Len(messages) : messages[i].branchId = branchId})

\* the current branch by priority: explicit id, last-active pointer, recency
resolveCurrent(ordered, explicitId, lastActiveBranchId) ==
    LET wanted == IF explicitId # None THEN explicitId
                  ELSE IF lastActiveBranchId # None THEN lastActiveBranchId
                  ELSE ordered[1].id
        hits == {i \in 1..Len(ordered) : ordered[i].id = wanted}
    IN IF hits = {} THEN None ELSE wanted

persSummaries(ordered, currentId, max, messages) ==
    LET shown == firstN(ordered, max)
    IN [i \in 1..Len(shown) |->
          [id |-> shown[i].id,
           summary |-> IF shown[i].summary = None THEN NoSummary ELSE shown[i].summary,
           messageCount |-> messagesIn(messages, shown[i].id),
           isCurrentBranch |-> shown[i].id = currentId]]

NoClassification ==
    [cls |-> Threw, code |-> "none", called |-> FALSE, llm |-> None]

IdleReq ==
    [pc |-> "idle", conversationId |-> "", content |-> "", role |-> "user",
     userId |-> "", currentBranchId |-> None, max |-> DefaultMaxBranches,
     currentBranch |-> None, branches |-> <<>>, classification |-> NoClassification,
     branchId |-> None, messageId |-> None, reasonCodes |-> <<>>]

NoResult ==
    [status |-> "none", stage |-> "none", error |-> "", action |-> None,
     branchId |-> None, messageId |-> None, previousBranchId |-> None,
     isNewBranch |-> FALSE, branchTopic |-> None, reasonCodes |-> <<>>]

Store == [conv |-> dbConv, branches |-> dbBranches, messages |-> dbMessages,
          facts |-> dbFacts]

PersInputs(branches) ==
    [conversationId : {"c1", " "}, content : {"hi", " "},
     role : {"user", "assistant", "system"}, userId : {"u1", ""},
     currentBranchId : {None, "ghost"} \cup {branches[i].id : i \in 1..Len(branches)},
     max : {1, DefaultMaxBranches}]

\* DriftOrchestrator.initializeContext
PersRequest(input) ==
    /\ persReq.pc = "idle"
    /\ Len(dbMessages) < MsgLimit
    /\ persReq' = [IdleReq EXCEPT !.pc = "validate-input",
                                  !.conversationId = input.conversationId,
                                  !.content = input.content, !.role = input.role,
                                  !.userId = input.userId,
                                  !.currentBranchId = input.currentBranchId,
                                  !.max = input.max]
    /\ dbAtStart' = Store
    /\ persResult' = NoResult
    /\ UNCHANGED <<dbVars, persJobs>>
    /\ UNCHANGED <<mergeVars, parseVars, ephVars>>

\* a critical stage throws: the pipeline stops and the caller gets the error
abort(stage, error) ==
    /\ persReq' = IdleReq
    /\ persResult' = [NoResult EXCEPT !.status = "error", !.stage = stage,
                                      !.error = error,
                                      !.reasonCodes = persReq.reasonCodes]

ValidateInput ==
    /\ persReq.pc = "validate-input"
    /\ IF validationError(persReq) # ""
       THEN /\ abort("validate-input", validationError(persReq))
            /\ UNCHANGED dbConv
       ELSE /\ dbConv' = ensureConversation(dbConv)
            /\ persReq' = [persReq EXCEPT !.pc = "load-branches",
                              !.reasonCodes = Append(@, "input_valid")]
            /\ UNCHANGED persResult
    /\ UNCHANGED <<dbBranches, dbMessages, dbFacts, dbClock, dbAtStart, persJobs>>
    /\ UNCHANGED <<mergeVars, parseVars, ephVars>>

LoadBranches ==
    /\ persReq.pc = "load-branches"
    /\ LET ordered == byUpdatedDesc(rowsOf(dbBranches))
           currentId == resolveCurrent(ordered, persReq.currentBranchId,
                                       dbConv.lastActiveBranchId)
       IN IF Len(ordered) = 0
          THEN /\ persReq' = [persReq EXCEPT !.pc = "classify-route",
                                 !.reasonCodes = Append(@, "new_conversation")]
               /\ UNCHANGED persResult
          ELSE IF currentId = None
          THEN abort("load-branches", "Branch not found")
          ELSE /\ persReq' = [persReq EXCEPT !.pc = "classify-route",
                                 !.currentBranch = currentId,
                                 !.branches = persSummaries(ordered, currentId,
                                                            persReq.max, dbMessages),
                                 !.reasonCodes = Append(@, "branches_loaded")]
               /\ UNCHANGED persResult
    /\ UNCHANGED <<dbVars, dbAtStart, persJobs>>
    /\ UNCHANGED <<mergeVars, parseVars, ephVars>>

PersResponses ==
    {Response("ok", a, t, n, RoutingMeta, <<>>) :
        a \in AnyActions, t \in EphIndexes, n \in Topics}
    \cup {BadJson, NoDecision, LlmError}

ClassifyRoute(response) ==
    /\ persReq.pc = "classify-route"
    /\ LET res == classifyRoute(persReq.role, persReq.content, persReq.branches, response)
       IN IF res.cls.threw
          THEN abort("classify-route", "classification failed")
          ELSE /\ persReq' = [persReq EXCEPT !.pc = "execute-route",
                                 !.classification = res,
                                 !.reasonCodes = Append(@, res.code)]
               /\ UNCHANGED persResult
    /\ UNCHANGED <<dbVars, dbAtStart, persJobs>>
    /\ UNCHANGED <<mergeVars, parseVars, ephVars>>

\* the column default of branches."branchDepth"; branch.create passes no depth
DefaultBranchDepth == 0

\* every new branch is created as a root
parentOfNone(ctx) == None

\* `parentId: ctx.currentBranch?.id ?? null`
parentOf(ctx) == ctx.currentBranch

\* the extraction started for the branch the message lands in
extractedBranchLanding(ctx, branchId) == branchId

\* `factsService.extract(ctx.currentBranch.id)`
extractedBranch(ctx, branchId) == ctx.currentBranch

\* DriftOrchestrator.buildResult
buildResult(ctx, classification, branch, messageId, codes) ==
    [status |-> "ok", stage |-> "done", error |-> "",
     action |-> classification.action,
     branchId |-> branch.id, messageId |-> messageId,
     previousBranchId |-> IF ctx.currentBranch # branch.id THEN ctx.currentBranchId
                          ELSE None,
     isNewBranch |-> classification.action = "BRANCH",
     branchTopic |-> IF branch.summary = None THEN UnknownTopic ELSE branch.summary,
     reasonCodes |-> codes]

ExecuteRoute ==
    /\ persReq.pc = "execute-route"
    /\ LET classification == persReq.classification.cls
           action == classification.action
           target == classification.targetBranchId
           failure ==
               IF action = "STAY" /\ persReq.currentBranch = None
               THEN "No current branch to stay in"
               ELSE IF action = "ROUTE" /\ target.kind = "none"
               THEN "ROUTE action requires targetBranchId"
               ELSE IF action \notin Actions
               THEN "message.create: branchId is undefined"  \* no case of the switch ran
               ELSE ""
           created == [id |-> persBranchId(Len(dbBranches) + 1),
                       parentId |-> parentOf(persReq),
                       branchDepth |-> DefaultBranchDepth,
                       summary |-> IF classification.newBranchTopic # None
                                   THEN classification.newBranchTopic
                                   ELSE slice100(persReq.content),
                       updatedAt |-> dbClock]
           branchId == CASE action = "STAY" -> persReq.currentBranch
                         [] action = "ROUTE" -> target.id
                         [] OTHER -> created.id
           branches1 == IF action = "BRANCH" THEN Append(dbBranches, created)
                        ELSE dbBranches
           leaving == action \in {"BRANCH", "ROUTE"} /\ persReq.currentBranch # None
           codes == persReq.reasonCodes
                    \o (IF action = "BRANCH" THEN <<"branch_created">> ELSE <<>>)
                    \o (IF leaving THEN <<"facts_extraction_triggered">> ELSE <<>>)
           messageId == persMessageId(Len(dbMessages) + 1)
       IN IF failure # ""
          THEN /\ abort("execute-route", failure)
               /\ UNCHANGED <<dbVars, persJobs>>
          ELSE /\ dbBranches' = branches1
               /\ dbClock' = IF action = "BRANCH" THEN dbClock + 1 ELSE dbClock
               /\ persJobs' = IF leaving
                              THEN Append(persJobs, [branchId |-> extractedBranch(persReq,
                                                                                 branchId),
                                                     pc |-> "extract", topic |-> "",
                                                     rows |-> <<>>])
                              ELSE persJobs
               /\ dbMessages' = Append(dbMessages,
                                   [id |-> messageId, branchId |-> branchId,
                                    role |-> persReq.role, content |-> persReq.content,
                                    driftAction |-> action,
                                    driftReason |-> classification.reason])
               /\ dbConv' = [dbConv EXCEPT !.lastActiveBranchId = branchId]
               /\ persReq' = [persReq EXCEPT !.pc = "load-result",
                                              !.branchId = branchId,
                                              !.messageId = messageId,
                                              !.reasonCodes = codes]
               /\ UNCHANGED <<dbFacts, persResult>>
    /\ UNCHANGED dbAtStart
    /\ UNCHANGED <<mergeVars, parseVars, ephVars>>

\* the end of executeRoute, reached after the awaited writes: the branch row
\* is read again (findUniqueOrThrow) and the orchestrator builds the result
ExecuteRouteResult ==
    /\ persReq.pc = "load-result"
    /\ LET b == findBranch(dbBranches, persReq.branchId)
       IN persResult' = buildResult(persReq, persReq.classification.cls,
                                    dbBranches[b], persReq.messageId,
                                    Append(persReq.reasonCodes, "message_created"))
    /\ persReq' = IdleReq
    /\ UNCHANGED <<dbVars, dbAtStart, persJobs>>
    /\ UNCHANGED <<mergeVars, parseVars, ephVars>>

\* what a re-extraction may find: a topic name (or none) and fact rows
JobTopics == {"", "R"}
JobRows == {<<>>, <<[key |-> "k", value |-> "a"]>>, <<[key |-> "k", value |-> "b"]>>}

removeAt(q, j) == SubSeq(q, 1, j - 1) \o SubSeq(q, j + 1, Len(q))

\* facts extract-facts: the extraction model answers for the branch's messages
JobExtracted(j, topic, rows) ==
    /\ j \in 1..Len(persJobs)
    /\ persJobs[j].pc = "extract"
    /\ LET none == messagesIn(dbMessages, persJobs[j].branchId) = 0
       IN persJobs' = [persJobs EXCEPT ![j].pc = "save",
                          ![j].topic = IF none THEN "" ELSE topic,
                          ![j].rows = IF none THEN <<>> ELSE rows]
    /\ UNCHANGED <<dbVars, dbAtStart, persReq, persResult>>
    /\ UNCHANGED <<mergeVars, parseVars, ephVars>>

\* the extraction call fails: logged by the caller's catch, nothing is saved
JobFailed(j) ==
    /\ j \in 1..Len(persJobs)
    /\ persJobs[j].pc = "extract"
    /\ persJobs' = removeAt(persJobs, j)
    /\ UNCHANGED <<dbVars, dbAtStart, persReq, persResult>>
    /\ UNCHANGED <<mergeVars, parseVars, ephVars>>

\* the summary a branch row has once save-facts has run its first part
savedSummary(row, branchTopic) ==
    IF branchTopic # "" THEN branchTopic ELSE row.summary

\* save-facts, first part: the branch summary is set to the extracted topic
JobSaveTopic(j) ==
    /\ j \in 1..Len(persJobs)
    /\ persJobs[j].pc = "save"
    /\ LET b == findBranch(dbBranches, persJobs[j].branchId)
           renamed == persJobs[j].topic # "" /\ b # 0
       IN /\ dbBranches' = IF renamed
                           THEN [dbBranches EXCEPT
                                    ![b].summary = savedSummary(dbBranches[b],
                                                                persJobs[j].topic),
                                    ![b].updatedAt = dbClock]
                           ELSE dbBranches
          /\ dbClock' = IF renamed THEN dbClock + 1 ELSE dbClock
    /\ persJobs' = IF persJobs[j].rows = <<>> THEN removeAt(persJobs, j)
                   ELSE [persJobs EXCEPT ![j].pc = "delete"]
    /\ UNCHANGED <<dbConv, dbMessages, dbFacts, dbAtStart, persReq, persResult>>
    /\ UNCHANGED <<mergeVars, parseVars, ephVars>>

\* save-facts, second part: prisma.fact.deleteMany({ where: { branchId } })
JobDeleteFacts(j) ==
    /\ j \in 1..Len(persJobs)
    /\ persJobs[j].pc = "delete"
    /\ dbFacts' = SelectSeq(dbFacts, LAMBDA row : row.branchId # persJobs[j].branchId)
    /\ persJobs' = [persJobs EXCEPT ![j].pc = "create"]
    /\ UNCHANGED <<dbConv, dbBranches, dbMessages, dbClock, dbAtStart, persReq, persResult>>
    /\ UNCHANGED <<mergeVars, parseVars, ephVars>>

\* save-facts, third part: the transaction of prisma.fact.create calls
JobCreateFacts(j) ==
    /\ j \in 1..Len(persJobs)
    /\ persJobs[j].pc = "create"
    /\ dbFacts' = dbFacts \o
                  [i \in 1..Len(persJobs[j].rows) |->
                      [branchId |-> persJobs[j].branchId, key |-> persJobs[j].rows[i].key,
                       value |-> persJobs[j].rows[i].value]]
    /\ persJobs' = removeAt(persJobs, j)
    /\ UNCHANGED <<dbConv, dbBranches, dbMessages, dbClock, dbAtStart, persReq, persResult>>
    /\ UNCHANGED <<mergeVars, parseVars, ephVars>>

----------------------------------------------------------------------------
(* SpecMerge                                                               *)

MergeIdle ==
    /\ facts = EmptyFacts /\ factsOnce = EmptyFacts /\ mergeOp = "init"
    /\ mergeKind = {} /\ mergeNamed = {} /\ mergeMsg = NoMsg
NoParseInput == [response |-> BadJson, currentBranchId |-> None, otherBranches |-> <<>>]
ParseIdle == parsePc = "idle" /\ parseIn = NoParseInput /\ parseOut = Threw

EphIdle ==
    /\ ephReqs = {} /\ ephInput = <<>> /\ ephCache = NoCache
    /\ ephHeap = [x \in Refs |-> EmptyArrays]
    /\ ephCall = [r \in AllRequests |-> IdleCall]
    /\ ephFailures = 0

NoScript == [phase |-> "idle", role |-> "user", action |-> "STAY", target |-> 0,
             topic |-> ""]
AuxIdle ==
    /\ cenPc = "idle" /\ cenIn = [old |-> <<>>, e |-> <<>>, n |-> 1] /\ cenOut = <<>>
    /\ script = NoScript

PersIdle ==
    /\ dbConv = NoConv /\ dbBranches = <<>> /\ dbMessages = <<>> /\ dbFacts = <<>>
    /\ dbClock = 0
    /\ dbAtStart = [conv |-> NoConv, branches |-> <<>>, messages |-> <<>>, facts |-> <<>>]
    /\ persReq = IdleReq /\ persResult = NoResult /\ persJobs = <<>>

InitMerge == MergeIdle /\ ParseIdle /\ EphIdle /\ PersIdle /\ AuxIdle

\* a BRANCH decision: the observed branch is a new one, built from the payload
BranchCreateFacts(newFacts, messageId) ==
    /\ facts' = factsRecord(EmptyFacts, newFacts, messageId)
    /\ factsOnce' = facts'
    /\ mergeOp' = "create"
    /\ mergeKind' = {<<newFacts[n].key, "create">> : n \in 1..Len(newFacts)}
    /\ mergeNamed' = namedOf(newFacts)
    /\ mergeMsg' = messageId
    /\ UNCHANGED <<parseVars, ephVars, persVars>>

\* a STAY or ROUTE decision landing in the observed branch
MergeFactsCall(newFacts, messageId) ==
    /\ facts' = mergeFacts(facts, newFacts, messageId)
    /\ factsOnce' = facts'
    /\ mergeOp' = "merge"
    /\ mergeKind' = pathsOf(facts, newFacts, messageId)
    /\ mergeNamed' = namedOf(newFacts)
    /\ mergeMsg' = messageId
    /\ UNCHANGED <<parseVars, ephVars, persVars>>

\* the same payload delivered twice for the same message
MergeFactsReplay(newFacts, messageId) ==
    /\ factsOnce' = mergeFacts(facts, newFacts, messageId)
    /\ facts' = mergeFacts(factsOnce', newFacts, messageId)
    /\ mergeOp' = "replay"
    /\ mergeKind' = pathsOf(facts, newFacts, messageId)
    /\ mergeNamed' = namedOf(newFacts)
    /\ mergeMsg' = messageId
    /\ UNCHANGED <<parseVars, ephVars, persVars>>

NextMerge ==
    \E newFacts \in Payloads, messageId \in MessageIds :
        \/ BranchCreateFacts(newFacts, messageId) /\ UNCHANGED auxVars
        \/ MergeFactsCall(newFacts, messageId) /\ UNCHANGED auxVars
        \/ MergeFactsReplay(newFacts, messageId) /\ UNCHANGED auxVars

SpecMerge == InitMerge /\ [][NextMerge]_vars

----------------------------------------------------------------------------
(* SpecParse                                                               *)

InitParse ==
    /\ MergeIdle
    /\ parsePc = "in" /\ parseIn \in ParseInputs /\ parseOut = Threw
    /\ EphIdle /\ PersIdle /\ AuxIdle

ParseResponseCall ==
    /\ parsePc = "in"
    /\ parsePc' = "out"
    /\ parseOut' = parseResponse(parseIn.response, parseIn.currentBranchId,
                                 parseIn.otherBranches)
    /\ UNCHANGED <<parseIn>>
    /\ UNCHANGED <<mergeVars, ephVars, persVars>>

NextParse == ParseResponseCall /\ UNCHANGED auxVars

SpecParse == InitParse /\ [][NextParse]_vars

----------------------------------------------------------------------------
(* SpecEph: one conversation served by /demo/route, one request at a time  *)

InitEph ==
    /\ MergeIdle /\ ParseIdle /\ PersIdle /\ AuxIdle
    /\ ephReqs = {"r1"} /\ ephInput = <<>> /\ ephCache = NoCache
    /\ ephHeap = [x \in Refs |-> EmptyArrays]
    /\ ephCall = [r \in AllRequests |-> IdleCall]
    /\ ephFailures = 0

NextEph ==
    \E r \in AllRequests :
        \/ \E newMsgs \in SeqsUpTo(InputMessages, MaxMsgs), extract \in BOOLEAN :
              EphRequest(r, newMsgs, extract) /\ UNCHANGED auxVars
        \/ \E response \in EphResponses(TRUE) \cup EphResponses(FALSE) :
              EphClassified(r, response) /\ UNCHANGED auxVars
        \/ \E response \in EphFailures :
              EphClassifyFailed(r, response) /\ UNCHANGED auxVars

SpecEph == InitEph /\ [][NextEph]_vars

\* the handler awaits the classifier, so a second request for the same
\* conversation can be accepted while the first one is in flight
InitOverlap ==
    /\ MergeIdle /\ ParseIdle /\ PersIdle /\ AuxIdle
    /\ ephReqs = AllRequests /\ ephInput = <<>> /\ ephCache = NoCache
    /\ ephHeap = [x \in Refs |-> EmptyArrays]
    /\ ephCall = [r \in AllRequests |-> IdleCall]
    /\ ephFailures = 0

NextOverlap ==
    \E r \in AllRequests :
        \/ \E newMsgs \in SeqsUpTo({[role |-> "user", content |-> "hi"]}, 1) :
              EphRequest(r, newMsgs, FALSE) /\ UNCHANGED auxVars
        \/ \E action \in {"STAY", "BRANCH"} :
              EphClassified(r, Response("ok", action, <<>>, "T", RoutingMeta, <<>>))
                /\ UNCHANGED auxVars
        \/ \E response \in EphFailures :
              EphClassifyFailed(r, response) /\ UNCHANGED auxVars

SpecOverlap == InitOverlap /\ [][NextOverlap]_vars

----------------------------------------------------------------------------
(* SpecPers: one conversation routed through the persisted pipeline, with  *)
(* the fact re-extractions it starts running in the background             *)

InitPers == MergeIdle /\ ParseIdle /\ EphIdle /\ PersIdle /\ AuxIdle

NextPers ==
    \/ \E input \in PersInputs(dbBranches) : PersRequest(input) /\ UNCHANGED auxVars
    \/ ValidateInput /\ UNCHANGED auxVars
    \/ LoadBranches /\ UNCHANGED auxVars
    \/ \E response \in PersResponses : ClassifyRoute(response) /\ UNCHANGED auxVars
    \/ ExecuteRoute /\ UNCHANGED auxVars
    \/ ExecuteRouteResult /\ UNCHANGED auxVars
    \/ \E j \in 1..MaxMsgs :
          \/ \E topic \in JobTopics, rows \in JobRows :
                JobExtracted(j, topic, rows) /\ UNCHANGED auxVars
          \/ JobFailed(j) /\ UNCHANGED auxVars
          \/ JobSaveTopic(j) /\ UNCHANGED auxVars
          \/ JobDeleteFacts(j) /\ UNCHANGED auxVars
          \/ JobCreateFacts(j) /\ UNCHANGED auxVars

SpecPers == InitPers /\ [][NextPers]_vars

-----------------------------------------------------------------------------
(* Running-average centroid.  A JavaScript number is modelled as an exact   *)
(* fraction, or as one of NaN, Infinity, -Infinity; binary rounding of the  *)
(* quotient is not modelled.                                                *)

MaxDim == 3          \* components of an embedding
MaxCount == 2        \* messageCount passed to calculateCentroid

\* NaN, Infinity and -Infinity
NotFinite(k) == [k |-> k, num |-> 0, den |-> 1]

\* n / d in lowest terms, d > 0
Fraction(n, d) ==
    LET RECURSIVE GCD(_, _)
        GCD(a, b) == IF b = 0 THEN a ELSE GCD(b, a % b)
        g == GCD(IF n < 0 THEN -n ELSE n, d)
    IN  [k |-> "finite", num |-> n \div g, den |-> d \div g]

\* a + b
plus(a, b) ==
    IF a.k = "NaN" \/ b.k = "NaN" THEN NotFinite("NaN")
    ELSE IF a.k = "finite" /\ b.k = "finite"
         THEN Fraction(a.num * b.den + b.num * a.den, a.den * b.den)
    ELSE IF a.k = "finite" THEN b
    ELSE IF b.k = "finite" \/ a.k = b.k THEN a
    ELSE NotFinite("NaN")

\* a - b
minus(a, b) ==
    LET negated == IF b.k = "finite" THEN Fraction(-b.num, b.den)
                   ELSE IF b.k = "Infinity" THEN NotFinite("-Infinity")
                   ELSE IF b.k = "-Infinity" THEN NotFinite("Infinity")
                   ELSE b
    IN  plus(a, negated)

\* a / n for a natural number n
dividedBy(a, n) ==
    IF a.k = "NaN" THEN NotFinite("NaN")
    ELSE IF a.k # "finite" THEN a
    ELSE IF n # 0 THEN Fraction(a.num, a.den * n)
    ELSE IF a.num = 0 THEN NotFinite("NaN")
    ELSE IF a.num > 0 THEN NotFinite("Infinity")
    ELSE NotFinite("-Infinity")

\* newEmbedding[i]: undefined past the end, NaN once used in arithmetic
elementAt(newEmbedding, i) ==
    IF i \in DOMAIN newEmbedding THEN newEmbedding[i] ELSE NotFinite("NaN")

calculateCentroidAsMean(oldCentroid, newEmbedding, messageCount) ==
    IF Len(oldCentroid) = 0 THEN newEmbedding
    ELSE [i \in 1..Len(oldCentroid) |->
            dividedBy(plus(oldCentroid[i], elementAt(newEmbedding, i)),
                      messageCount)]

calculateCentroid(oldCentroid, newEmbedding, messageCount) ==
    IF Len(oldCentroid) = 0 THEN newEmbedding
    ELSE [i \in 1..Len(oldCentroid) |->
            plus(oldCentroid[i],
                 dividedBy(minus(elementAt(newEmbedding, i), oldCentroid[i]),
                           messageCount))]

Embeddings == SeqsUpTo({Fraction(v, 1) : v \in {-2, 1, 2, 3, 4, 6}}, MaxDim)

InitCentroid ==
    /\ MergeIdle /\ ParseIdle /\ EphIdle /\ PersIdle
    /\ script = NoScript
    /\ cenPc = "in"
    /\ cenIn \in [old : Embeddings, e : Embeddings, n : 0..MaxCount]
    /\ cenOut = <<>>

CalculateCentroidCall ==
    /\ cenPc = "in"
    /\ cenOut' = calculateCentroid(cenIn.old, cenIn.e, cenIn.n)
    /\ cenPc' = "out"
    /\ UNCHANGED <<cenIn, script, mergeVars, parseVars, ephVars, persVars>>

NextCentroid == CalculateCentroidCall

SpecCentroid == InitCentroid /\ [][NextCentroid]_vars

-----------------------------------------------------------------------------
(* Both modes fed the same conversation: each message goes through the     *)
(* persisted pipeline and then through /demo/route, and the classifier     *)
(* makes the same decision in both (action, target branch, new topic).     *)

\* the classifier's answer for decision d, where the target branch is named
\* by its 1-based position among the other branches the prompt lists
decisionResponse(summaries, targetId, d) ==
    LET others == othersOf(summaries)
        hits == {i \in 1..Len(others) : others[i].id = targetId}
    IN Response("ok", d.action,
                IF d.action = "ROUTE" /\ hits # {}
                THEN <<ToString(CHOOSE i \in hits : TRUE)>> ELSE <<>>,
                d.topic, RoutingMeta, <<>>)

InitBoth ==
    /\ MergeIdle /\ ParseIdle /\ PersIdle
    /\ ephReqs = {"r1"} /\ ephInput = <<>> /\ ephCache = NoCache
    /\ ephHeap = [x \in Refs |-> EmptyArrays]
    /\ ephCall = [r \in AllRequests |-> IdleCall]
    /\ ephFailures = 0
    /\ cenPc = "idle" /\ cenIn = [old |-> <<>>, e |-> <<>>, n |-> 1] /\ cenOut = <<>>
    /\ script = [NoScript EXCEPT !.phase = "pick"]

\* the next message of the conversation and the decision the classifier will
\* make for it; a ROUTE names a branch that exists and is not current in
\* either mode
BothPick(role, action, target, topic) ==
    /\ script.phase = "pick"
    /\ Len(ephInput) < MaxMsgs
    /\ IF role = "assistant"
       THEN action = NoScript.action /\ target = 0 /\ topic = NoScript.topic
       ELSE IF action = "ROUTE"
       THEN /\ target \in 1..Len(dbBranches)
            /\ target \in 1..Len(ephHeap[ephCache.ref].branches)
            /\ dbBranches[target].id # dbConv.lastActiveBranchId
            /\ ephHeap[ephCache.ref].branches[target].id # ephCache.currentBranchId
       ELSE target = 0
    /\ script' = [phase |-> "persisted", role |-> role, action |-> action,
                  target |-> target, topic |-> topic]
    /\ UNCHANGED <<cenPc, cenIn, cenOut, mergeVars, parseVars, ephVars, persVars>>

\* one step of the persisted pipeline for the scripted message
BothPersisted(stage) ==
    /\ script.phase = "persisted"
    /\ stage
    /\ script' = [script EXCEPT !.phase = IF persReq'.pc = "idle" THEN "ephemeral"
                                          ELSE "persisted"]
    /\ UNCHANGED <<cenPc, cenIn, cenOut>>

\* one step of the /demo/route call for the scripted message
BothEphemeral(stage) ==
    /\ script.phase = "ephemeral"
    /\ stage
    /\ script' = [script EXCEPT !.phase = IF ephCall'["r1"].pc = "idle" THEN "pick"
                                          ELSE "ephemeral"]
    /\ UNCHANGED <<cenPc, cenIn, cenOut>>

NextBoth ==
    \/ \E role \in Roles, action \in Actions, target \in 0..MaxMsgs, topic \in Topics :
          BothPick(role, action, target, topic)
    \/ BothPersisted(PersRequest([conversationId |-> "c1", content |-> "hi",
                                  role |-> script.role, userId |-> "u1",
                                  currentBranchId |-> None,
                                  max |-> DefaultMaxBranches]))
    \/ BothPersisted(ValidateInput)
    \/ BothPersisted(LoadBranches)
    \/ BothPersisted(ClassifyRoute(decisionResponse(
          persReq.branches,
          IF script.target \in 1..Len(dbBranches) THEN dbBranches[script.target].id
          ELSE None, script)))
    \/ BothPersisted(ExecuteRoute)
    \/ BothPersisted(ExecuteRouteResult)
    \/ BothEphemeral(EphRequest("r1", <<[role |-> script.role, content |-> "hi"]>>,
                                 FALSE))
    \/ BothEphemeral(EphClassified("r1", decisionResponse(
          ephCall["r1"].ctx,
          IF script.target \in 1..Len(ephHeap[ephCall["r1"].ref].branches)
          THEN ephHeap[ephCall["r1"].ref].branches[script.target].id ELSE None,
          script)))
    \/ \E j \in 1..MaxMsgs :
          \/ \E topic \in JobTopics, rows \in JobRows :
                JobExtracted(j, topic, rows) /\ UNCHANGED auxVars
          \/ JobFailed(j) /\ UNCHANGED auxVars
          \/ JobSaveTopic(j) /\ UNCHANGED auxVars
          \/ JobDeleteFacts(j) /\ UNCHANGED auxVars
          \/ JobCreateFacts(j) /\ UNCHANGED auxVars

SpecBoth == InitBoth /\ [][NextBoth]_vars

-----------------------------------------------------------------------------
(* A long conversation: each mode is sent user messages one at a time and  *)
(* the classifier opens a new branch for every one of them.                *)

InitMany ==
    /\ MergeIdle /\ ParseIdle /\ PersIdle
    /\ ephReqs = {"r1"} /\ ephInput = <<>> /\ ephCache = NoCache
    /\ ephHeap = [x \in Refs |-> EmptyArrays]
    /\ ephCall = [r \in AllRequests |-> IdleCall]
    /\ ephFailures = 0
    /\ cenPc = "idle" /\ cenIn = [old |-> <<>>, e |-> <<>>, n |-> 1] /\ cenOut = <<>>
    /\ script = [NoScript EXCEPT !.phase = "many", !.action = "BRANCH", !.topic = "T"]

NextMany ==
    \/ EphRequest("r1", <<[role |-> "user", content |-> "hi"]>>, FALSE)
          /\ UNCHANGED auxVars
    \/ EphClassified("r1", decisionResponse(ephCall["r1"].ctx, None, script))
          /\ UNCHANGED auxVars
    \/ \E max \in {1, DefaultMaxBranches} :
          PersRequest([conversationId |-> "c1", content |-> "hi", role |-> "user",
                       userId |-> "u1", currentBranchId |-> None, max |-> max])
            /\ UNCHANGED auxVars
    \/ ValidateInput /\ UNCHANGED auxVars
    \/ LoadBranches /\ UNCHANGED auxVars
    \/ ClassifyRoute(decisionResponse(persReq.branches, None, script))
          /\ UNCHANGED auxVars
    \/ ExecuteRoute /\ UNCHANGED auxVars
    \/ ExecuteRouteResult /\ UNCHANGED auxVars

SpecMany == InitMany /\ [][NextMany]_vars

----------------------------------------------------------------------------
(* Properties of the fact merge                                            *)

SameEntry(e, f) ==
    e.value = f.value /\ e.messageId = f.messageId /\ e.confidence = f.confidence

\* C3: a merge never removes a value entry: every entry of a key is still
\* at its place after the merge, at most with another status.
C3_NoEntryDeleted ==
    [][mergeOp' \in {"merge", "replay"} =>
         \A k \in DOMAIN facts :
            /\ k \in DOMAIN facts'
            /\ Len(facts'[k]) >= Len(facts[k])
            /\ \A i \in 1..Len(facts[k]) : SameEntry(facts[k][i], facts'[k][i])]_vars

\* C4: no key of a branch holds two active entries with the same value text.
C4_OneActivePerValue ==
    \A k \in DOMAIN facts : \A i, j \in 1..Len(facts[k]) :
        (/\ facts[k][i].status = "active"
         /\ facts[k][j].status = "active"
         /\ facts[k][i].value = facts[k][j].value) => i = j

\* C5: where a merge updates a key, an entry that existed before changes only
\* by being marked superseded under the merging message id, and only if it
\* was active and its value was named by a supersede request for that key;
\* every other existing entry is left as it was.
C5_SupersedeOnlyActiveExact ==
    [][mergeOp' = "merge" =>
         \A k \in DOMAIN facts :
            <<k, "create">> \notin mergeKind' =>
               \A i \in 1..Len(facts[k]) :
                  \/ facts'[k][i] = facts[k][i]
                  \/ /\ facts[k][i].status = "active"
                     /\ <<k, facts[k][i].value>> \in mergeNamed'
                     /\ facts'[k][i] = [facts[k][i] EXCEPT !.status = "superseded",
                                                           !.supersededBy = mergeMsg']]_vars

\* a merge superseded an active entry and ignored a request naming a value
\* that is not active under the key
C5_Witness ==
    /\ mergeOp = "merge"
    /\ \E k \in DOMAIN facts :
          /\ <<k, "update">> \in mergeKind
          /\ \E i \in 1..Len(facts[k]) :
                /\ facts[k][i].status = "superseded"
                /\ facts[k][i].supersededBy = mergeMsg
                /\ facts[k][i].messageId # mergeMsg
          /\ \E v \in Values :
                /\ <<k, v>> \in mergeNamed
                /\ \A i \in 1..Len(facts[k]) :
                      facts[k][i].value = v => facts[k][i].supersededBy # mergeMsg

----------------------------------------------------------------------------
(* Properties of routing in ephemeral mode                                 *)

CachedBranches == ephHeap[ephCache.ref].branches
CachedMessages == ephHeap[ephCache.ref].messages
IdsOf(branches) == {branches[i].id : i \in 1..Len(branches)}

\* C1: the first user-role message of a conversation is recorded with action
\* BRANCH, whatever the classifier answered.
C1_FirstUserMessageBranches ==
    ephCache.exists =>
        \A i \in 1..Len(CachedMessages) :
            (/\ CachedMessages[i].role = "user"
             /\ \A j \in 1..(i - 1) : CachedMessages[j].role # "user")
            => CachedMessages[i].action = "BRANCH"

\* C9: every assistant-role message is recorded with action STAY in the branch
\* that was current when it arrived, a branch of the conversation.
C9_AssistantStaysInCurrentBranch ==
    ephCache.exists =>
        \A i \in 1..Len(CachedMessages) :
            CachedMessages[i].role = "assistant" =>
                /\ CachedMessages[i].action = "STAY"
                /\ CachedMessages[i].branchId \in IdsOf(CachedBranches)

----------------------------------------------------------------------------
(* Properties of parseResponse                                             *)

ParsedOk == parsePc = "out" /\ ~parseOut.threw
OtherIds == {parseIn.otherBranches[i].id : i \in 1..Len(parseIn.otherBranches)}

\* the classifier said ROUTE and its index names the branch passed as current
ResolvesToCurrent ==
    /\ parseIn.response.action = "ROUTE"
    /\ parseIn.response.targetBranchId # <<>>
    /\ LET k == parseInt(parseIn.response.targetBranchId)
       IN /\ validTopicNumber(k, parseIn.otherBranches)
          /\ parseIn.otherBranches[k.n].id = parseIn.currentBranchId

\* C7: a result with action ROUTE names a target other than the branch the
\* message started in; a ROUTE resolving to that branch comes back as STAY
\* without a target.
C7_RouteNeverTargetsCurrent ==
    ParsedOk =>
        /\ parseOut.action = "ROUTE" =>
              /\ parseOut.targetBranchId.kind = "id"
              /\ parseOut.targetBranchId.id # parseIn.currentBranchId
        /\ ResolvesToCurrent =>
              /\ parseOut.action = "STAY"
              /\ parseOut.targetBranchId = NoTarget

\* a ROUTE to the current branch was turned into STAY
C7_Witness ==
    /\ ParsedOk
    /\ ResolvesToCurrent
    /\ parseOut.action = "STAY"

RECURSIVE dropTrailingSpace(_)
dropTrailingSpace(s) ==
    IF s # <<>> /\ s[Len(s)] = " " THEN dropTrailingSpace(SubSeq(s, 1, Len(s) - 1)) ELSE s

\* the string is an integer numeral: digits only, after an optional sign,
\* with blanks allowed around it
IsIntegerText(s) ==
    LET t == dropTrailingSpace(skipWhitespace(s))
        body == IF t # <<>> /\ Head(t) = "-" THEN Tail(t) ELSE t
    IN body # <<>> /\ \A i \in 1..Len(body) : body[i] \in Digits

IntegerOf(s) ==
    LET t == dropTrailingSpace(skipWhitespace(s))
    IN IF Head(t) = "-" THEN 0 - decimalValue(Tail(t)) ELSE decimalValue(t)

\* C8: a ROUTE response with index k against n other branches gives ROUTE to
\* the k-th of them when k is an integer in 1..n, and otherwise BRANCH with
\* the classifier's topic label or the fallback label.
C8_RouteIndexResolution ==
    (/\ ParsedOk
     /\ parseIn.response.action = "ROUTE"
     /\ parseIn.currentBranchId \notin OtherIds) =>
        LET k == parseIn.response.targetBranchId
            n == Len(parseIn.otherBranches)
        IN IF IsIntegerText(k) /\ IntegerOf(k) >= 1 /\ IntegerOf(k) <= n
           THEN /\ parseOut.action = "ROUTE"
                /\ parseOut.targetBranchId = IdTarget(parseIn.otherBranches[IntegerOf(k)].id)
           ELSE /\ parseOut.action = "BRANCH"
                /\ parseOut.newBranchTopic =
                      (IF parseIn.response.newBranchTopic # ""
                       THEN parseIn.response.newBranchTopic ELSE FallbackTopic)

----------------------------------------------------------------------------
(* Properties of the persisted pipeline                                    *)

\* C6: the topic label of a branch is set when the branch is created and is
\* the same ever after (summary of a branch row, topic of an ephemeral branch).
C6_TopicNeverChanges ==
    [][/\ \A i \in 1..Len(dbBranches) :
             /\ i <= Len(dbBranches')
             /\ dbBranches'[i].summary = dbBranches[i].summary
       /\ \A x \in Refs : \A i \in 1..Len(ephHeap[x].branches) :
             i <= Len(ephHeap'[x].branches) =>
                ephHeap'[x].branches[i].topic = ephHeap[x].branches[i].topic]_vars

PreExecuteStages == {"validate-input", "load-branches", "classify-route"}

\* C10 as claimed: the stages validate-input, load-branches and classify-route
\* perform no writes, so no step of theirs changes a conversation, branch,
\* message or fact row.
C10_NoWriteBeforeExecute ==
    [][(persReq.pc \in PreExecuteStages /\ persReq' # persReq) =>
          UNCHANGED <<dbConv, dbBranches, dbMessages, dbFacts>>]_vars

\* C10, amended: load-branches and classify-route write nothing, and
\* validate-input writes nothing but the conversation row it creates when the
\* conversation does not exist yet; branches, messages and facts are left as
\* they are by all three stages.
C10_OnlyConversationRowBeforeExecute ==
    [][(persReq.pc \in PreExecuteStages /\ persReq' # persReq) =>
          /\ dbBranches' = dbBranches
          /\ dbMessages' = dbMessages
          /\ dbFacts' = dbFacts
          /\ \/ dbConv' = dbConv
             \/ /\ persReq.pc = "validate-input"
                /\ ~dbConv.exists
                /\ dbConv' = [exists |-> TRUE, lastActiveBranchId |-> None]]_vars

\* a request was stopped in classify-route after validate-input had created
\* the conversation row, in a store that already held routed messages or not
C10_Witness ==
    /\ persResult.status = "error"
    /\ persResult.stage = "classify-route"
    /\ dbConv.exists
    /\ ~dbAtStart.conv.exists
    /\ dbBranches = dbAtStart.branches
    /\ dbMessages = dbAtStart.messages

----------------------------------------------------------------------------
(* Properties of malformed classifier output                               *)

\* C11: when the classifier's output is not parseable, has no decision object
\* or names an action outside STAY, ROUTE, BRANCH, no message is recorded for
\* it: every user message in the ephemeral arrays carries one of the three
\* actions, and every user message written to the message table stems from a
\* classifier answer naming one of them.
C11_MalformedOutputIsAnError ==
    [][/\ \A x \in Refs : \A i \in 1..Len(ephHeap'[x].messages) :
             ephHeap'[x].messages[i].role = "user" =>
                ephHeap'[x].messages[i].action \in Actions
       /\ (/\ persReq.pc = "execute-route"
           /\ persReq.role = "user"
           /\ Len(dbMessages') > Len(dbMessages)) =>
             persReq.classification.llm \in Actions]_vars

----------------------------------------------------------------------------
(* Properties of the ephemeral state across calls                          *)

EphAllIdle == \A r \in AllRequests : ephCall[r].pc = "idle"

\* C12: once a state has been returned, every later state of the conversation
\* holds each of its branches under the same id and each of its messages
\* under the same branch id.
C12_EphemeralIdsStable ==
    [][ephCache.exists =>
          /\ ephCache'.exists
          /\ LET B == ephHeap[ephCache.ref].branches
                 M == ephHeap[ephCache.ref].messages
                 B2 == ephHeap'[ephCache'.ref].branches
                 M2 == ephHeap'[ephCache'.ref].messages
             IN /\ Len(B2) >= Len(B)
                /\ \A i \in 1..Len(B) : B2[i].id = B[i].id
                /\ Len(M2) >= Len(M)
                /\ \A i \in 1..Len(M) :
                      M2[i].id = M[i].id /\ M2[i].branchId = M[i].branchId]_vars

\* a later call, started from a returned state, has created a further branch
C12_Witness ==
    /\ ephCache.exists
    /\ ephCache.lastProcessedIndex >= 1
    /\ Len(CachedBranches) >= 2
    /\ Len(CachedMessages) > ephCache.lastProcessedIndex
    /\ CachedMessages[Len(CachedMessages)].action = "BRANCH"

\* C13: in a returned state every message index below lastProcessedIndex has
\* exactly one stored message, and lastProcessedIndex is the number of stored
\* messages.
C13_EachIndexProcessedOnce ==
    (ephCache.exists /\ EphAllIdle) =>
        /\ Len(CachedMessages) = ephCache.lastProcessedIndex
        /\ \A i \in 0..(ephCache.lastProcessedIndex - 1) :
              Cardinality({j \in 1..Len(CachedMessages) :
                              CachedMessages[j].id = messageIdOf(i)}) = 1

CountsAgree ==
    \A x \in Refs : \A i \in 1..Len(ephHeap[x].branches) :
        ephHeap[x].branches[i].messageCount
            = countIn(ephHeap[x].messages, ephHeap[x].branches[i].id)

\* C16: each branch's messageCount is the number of stored messages with its
\* id, and storing one message raises the count of the branch it lands in by
\* one and leaves every other count as it was.
C16_MessageCountsAgree ==
    [][/\ CountsAgree'
       /\ \A x \in Refs :
             LET B == ephHeap[x].branches
                 M == ephHeap[x].messages
                 B2 == ephHeap'[x].branches
                 M2 == ephHeap'[x].messages
             IN (Len(M2) = Len(M) + 1 /\ Len(B2) >= Len(B)) =>
                   \A i \in 1..Len(B) :
                       B2[i].messageCount =
                           B[i].messageCount
                           + (IF M2[Len(M2)].branchId = B[i].id THEN 1 ELSE 0)]_vars

\* a returned state with messages counted in two branches
C16_Witness ==
    /\ ephCache.exists
    /\ \E i, j \in 1..Len(CachedBranches) :
          /\ i # j
          /\ CachedBranches[i].messageCount = 2
          /\ CachedBranches[j].messageCount = 1

\* C18: a returned state has a branch, its currentBranchId names one of its
\* branches, and when no message was routed as BRANCH the only branch is the
\* synthesized default branch, which is current.
C18_ReturnedStateHasCurrentBranch ==
    ephCache.exists =>
        /\ Len(CachedBranches) >= 1
        /\ ephCache.currentBranchId \in IdsOf(CachedBranches)
        /\ (\A j \in 1..Len(CachedMessages) : CachedMessages[j].action # "BRANCH") =>
              /\ Len(CachedBranches) = 1
              /\ CachedBranches[1].id = defaultBranch.id
              /\ CachedBranches[1].topic = DefaultBranchTopic
              /\ ephCache.currentBranchId = defaultBranch.id

\* a state returned by a call that routed no message to a new branch
C18_Witness ==
    /\ ephCache.exists
    /\ Len(CachedMessages) >= 1
    /\ \A j \in 1..Len(CachedMessages) : CachedMessages[j].action # "BRANCH"
    /\ CachedBranches[1].topic = DefaultBranchTopic

----------------------------------------------------------------------------
(* Properties of the branch tree                                           *)

\* the first branch has no parent, every later one has a parent created before it
ParentsWellFormed(B) ==
    \A i \in 1..Len(B) :
        IF i = 1 THEN B[i].parentId = None
        ELSE \E j \in 1..(i - 1) : B[j].id = B[i].parentId

\* C14: only the first branch of a conversation has a null parent; every other
\* branch has as parent a branch created before it, namely the branch that was
\* current when the BRANCH decision was executed, so there is no cycle.
C14_ParentLinks ==
    [][/\ ParentsWellFormed(dbBranches')
       /\ \A x \in Refs : ParentsWellFormed(ephHeap'[x].branches)
       /\ (persReq.pc = "execute-route" /\ Len(dbBranches') = Len(dbBranches) + 1) =>
             dbBranches'[Len(dbBranches')].parentId = persReq.currentBranch
       /\ \A r \in AllRequests :
             (/\ ephCall[r].pc = "await"
              /\ Len(ephHeap'[ephCall[r].ref].branches)
                    = Len(ephHeap[ephCall[r].ref].branches) + 1) =>
                ephHeap'[ephCall[r].ref].branches[
                    Len(ephHeap'[ephCall[r].ref].branches)].parentId = ephCall[r].cur]_vars

\* a branch whose parent is itself a child
C14_Witness ==
    \/ /\ Len(dbBranches) = 3
       /\ dbBranches[3].parentId = dbBranches[2].id
       /\ dbBranches[2].parentId = dbBranches[1].id
    \/ /\ ephCache.exists
       /\ Len(CachedBranches) = 3
       /\ CachedBranches[3].parentId = CachedBranches[2].id
       /\ CachedBranches[2].parentId = CachedBranches[1].id

\* C15: a branch without parent has depth 0, every other branch has the depth
\* of its parent plus one.
C15_DepthIsParentDepthPlusOne ==
    \A i \in 1..Len(dbBranches) :
        LET p == findBranch(dbBranches, dbBranches[i].parentId)
        IN IF dbBranches[i].parentId = None
           THEN dbBranches[i].branchDepth = 0
           ELSE p # 0 /\ dbBranches[i].branchDepth = dbBranches[p].branchDepth + 1

RunningAverage(out, old, e, n) ==
    IF e.k = "NaN" THEN out = NotFinite("NaN")
    ELSE IF n = 0
         THEN out = (IF e.num * old.den = old.num * e.den THEN NotFinite("NaN")
                     ELSE IF e.num * old.den > old.num * e.den THEN NotFinite("Infinity")
                     ELSE NotFinite("-Infinity"))
    ELSE /\ out.k = "finite"
         /\ (out.num * old.den - old.num * out.den) * n * e.den
              = (e.num * old.den - old.num * e.den) * out.den

C20_CentroidFormula ==
    cenPc = "out" =>
        /\ Len(cenIn.old) = 0 => cenOut = cenIn.e
        /\ Len(cenIn.old) > 0 =>
             /\ Len(cenOut) = Len(cenIn.old)
             /\ \A i \in 1..Len(cenIn.old) :
                  RunningAverage(cenOut[i], cenIn.old[i],
                                 elementAt(cenIn.e, i), cenIn.n)
        /\ (cenIn.old = <<Fraction(1, 1), Fraction(2, 1), Fraction(3, 1)>>
             /\ cenIn.e = <<Fraction(2, 1), Fraction(4, 1), Fraction(6, 1)>> /\ cenIn.n = 2)
             => cenOut = <<Fraction(3, 2), Fraction(3, 1), Fraction(9, 2)>>

C20_Witness ==
    /\ cenPc = "out"
    /\ cenIn.old = <<Fraction(1, 1), Fraction(2, 1), Fraction(3, 1)>>
    /\ cenIn.e = <<Fraction(2, 1), Fraction(4, 1), Fraction(6, 1)>>
    /\ cenIn.n = 2
    /\ cenOut = <<Fraction(3, 2), Fraction(3, 1), Fraction(9, 2)>>

\* C19: from an empty conversation, the same messages with the same classifier
\* decisions leave both modes with the same action for every message, the
\* same grouping of messages into branches, and branches created in the same
\* order with the same parent links and topic labels.
PositionOf(branches, id) ==
    LET hits == {k \in 1..Len(branches) : branches[k].id = id}
    IN IF hits = {} THEN 0 ELSE CHOOSE k \in hits : TRUE

PersistedView ==
    [messages |-> [i \in 1..Len(dbMessages) |->
                     [role |-> dbMessages[i].role, action |-> dbMessages[i].driftAction,
                      branch |-> PositionOf(dbBranches, dbMessages[i].branchId)]],
     branches |-> [k \in 1..Len(dbBranches) |->
                     [parent |-> PositionOf(dbBranches, dbBranches[k].parentId),
                      topic |-> dbBranches[k].summary]]]

EphemeralView ==
    [messages |-> [i \in 1..Len(CachedMessages) |->
                     [role |-> CachedMessages[i].role, action |-> CachedMessages[i].action,
                      branch |-> PositionOf(CachedBranches, CachedMessages[i].branchId)]],
     branches |-> [k \in 1..Len(CachedBranches) |->
                     [parent |-> PositionOf(CachedBranches, CachedBranches[k].parentId),
                      topic |-> CachedBranches[k].topic]]]

C19_ModesAgree ==
    (script.phase = "pick" /\ persJobs = <<>>) => PersistedView = EphemeralView

\* the same, for conversations of user messages only
C19_ModesAgreeOnUserMessages ==
    (/\ script.phase = "pick" /\ persJobs = <<>>
     /\ \A i \in 1..Len(ephInput) : ephInput[i].role = "user")
        => PersistedView = EphemeralView

\* C21: validateInput succeeds, appending input_valid, exactly when
\* conversationId and content are non-blank and role is user or assistant;
\* otherwise it throws the error of the first failing check in the order
\* conversationId, content, role.
ValidateInputStep == persReq.pc = "validate-input" /\ persReq'.pc # "validate-input"

ValidateInputOutcome(checks) ==
    LET failing == {i \in 1..Len(checks) : ~checks[i].ok}
        first == CHOOSE i \in failing : \A j \in failing : i <= j
    IN IF failing = {}
       THEN /\ persReq'.pc = "load-branches"
            /\ persReq'.reasonCodes = Append(persReq.reasonCodes, "input_valid")
       ELSE /\ persReq'.pc = "idle"
            /\ persResult'.status = "error"
            /\ persResult'.error = checks[first].error
            /\ persResult'.reasonCodes = persReq.reasonCodes

StatedChecks ==
    <<[ok |-> persReq.conversationId \notin {"", " "},
       error |-> "conversationId is required"],
      [ok |-> persReq.content \notin {"", " "}, error |-> "content is required"],
      [ok |-> persReq.role \in {"user", "assistant"},
       error |-> "role must be \"user\" or \"assistant\""]>>

C22_SummariesBounded ==
    /\ persReq.pc = "classify-route" => Len(persReq.branches) <= persReq.max
    /\ \A r \in AllRequests :
         ephCall[r].pc = "await" => Len(ephCall[r].ctx) <= DefaultMaxBranches

\* the persisted half of C22 alone
C22_PersistedSummariesBounded ==
    persReq.pc = "classify-route" => Len(persReq.branches) <= persReq.max

\* C23: the fact re-extraction started when a BRANCH or ROUTE leaves a branch
\* cannot change the outcome of the routing request.  It is started for the
\* branch left, which is never the branch the message lands in; each of its
\* steps, failure included, touches only the summary and the fact rows of
\* that branch and leaves messages, last-active pointer, request and result
\* alone; and the result reports the landing branch and the stored message.
ExtractionStep == persReq' = persReq /\ persJobs' # persJobs

ExtractionBranch ==
    LET changed == {j \in 1..Len(persJobs) :
                       j > Len(persJobs') \/ persJobs'[j] # persJobs[j]}
    IN persJobs[CHOOSE j \in changed : \A k \in changed : j <= k].branchId

C23_ExtractionCannotChangeOutcome ==
    [][/\ (persReq.pc = "execute-route" /\ Len(persJobs') > Len(persJobs)) =>
             /\ persReq.classification.cls.action \in {"BRANCH", "ROUTE"}
             /\ persJobs' = Append(persJobs, persJobs'[Len(persJobs')])
             /\ persJobs'[Len(persJobs')].branchId = persReq.currentBranch
             /\ persReq'.branchId # persReq.currentBranch
             /\ persReq'.pc = "load-result"
       /\ ExtractionStep =>
             /\ UNCHANGED <<dbMessages, dbConv, persResult>>
             /\ Len(dbBranches') = Len(dbBranches)
             /\ \A i \in 1..Len(dbBranches) :
                  IF dbBranches[i].id = ExtractionBranch
                  THEN /\ dbBranches'[i].id = dbBranches[i].id
                       /\ dbBranches'[i].parentId = dbBranches[i].parentId
                  ELSE dbBranches'[i] = dbBranches[i]
             /\ SelectSeq(dbFacts', LAMBDA row : row.branchId # ExtractionBranch)
                  = SelectSeq(dbFacts, LAMBDA row : row.branchId # ExtractionBranch)
       /\ persReq.pc = "load-result" /\ persReq' # persReq =>
             /\ persResult'.status = "ok"
             /\ persResult'.action = persReq.classification.cls.action
             /\ persResult'.branchId = persReq.branchId
             /\ persResult'.messageId = persReq.messageId
             /\ persResult'.branchTopic
                  = dbBranches[findBranch(dbBranches, persReq.branchId)].summary
             /\ dbConv.lastActiveBranchId = persReq.branchId
             /\ \E i \in 1..Len(dbMessages) :
                  /\ dbMessages[i].id = persReq.messageId
                  /\ dbMessages[i].branchId = persReq.branchId
                  /\ dbMessages[i].driftAction = persReq.classification.cls.action]_vars

\* the second message has left branch b1; its extraction has renamed b1 and
\* replaced its facts before the request returns
C23_Witness ==
    /\ persReq.pc = "load-result" /\ persReq.currentBranch = persBranchId(1)
    /\ Len(dbMessages) = 2 /\ persJobs = <<>>
    /\ dbBranches[1].summary = "R"
    /\ \E i \in 1..Len(dbFacts) : dbFacts[i].branchId = persBranchId(1)

\* C24: for every user message whose classifier response included fact
\* extraction, whatever the final action, the branch the message lands in
\* ends up with its context equal to the summary the classifier supplied and
\* with every extracted value recorded under its key and attributed to that
\* message.
ExtractionRecorded(r, response) ==
    LET ref == ephCall[r].ref
        m == ephHeap'[ref].messages[Len(ephHeap[ref].messages) + 1]
        b == findBranch(ephHeap'[ref].branches, m.branchId)
        landing == ephHeap'[ref].branches[b]
    IN /\ m.id = messageIdOf(ephCall[r].i)
       /\ b # 0
       /\ landing.context = response.branchContext
       /\ \A f \in 1..Len(response.facts) :
            /\ response.facts[f].key \in DOMAIN landing.facts
            /\ \A v \in 1..Len(response.facts[f].values) :
                 \E e \in 1..Len(landing.facts[response.facts[f].key]) :
                    /\ landing.facts[response.facts[f].key][e].value
                         = response.facts[f].values[v].value
                    /\ landing.facts[response.facts[f].key][e].messageId = m.id

C24_ExtractionLandsInBranch ==
    [][\A r \in AllRequests, response \in EphResponses(TRUE) :
          (ephCall[r].extract /\ EphClassified(r, response)) =>
              ExtractionRecorded(r, response)]_vars

\* C25: when fact extraction is suppressed, routing a message leaves the fact
\* map and the context of every existing branch as they were, the branch the
\* message lands in included.
C25_SuppressedExtractionChangesNoBranch ==
    [][\A r \in AllRequests :
          (ephCall[r].pc = "await" /\ ~ephCall[r].extract /\ ephCall'[r] # ephCall[r]) =>
              \A i \in 1..Len(ephHeap[ephCall[r].ref].branches) :
                 /\ ephHeap'[ephCall[r].ref].branches[i].facts
                      = ephHeap[ephCall[r].ref].branches[i].facts
                 /\ ephHeap'[ephCall[r].ref].branches[i].context
                      = ephHeap[ephCall[r].ref].branches[i].context]_vars

\* C26: when a /demo/route request fails while processing its new messages,
\* the cached state is what it was before the request: at the moment of the
\* failure the cached arrays hold the messages of the completed requests
\* only, each once, and every cached branch counts exactly its own messages.
C26_FailedRequestLeavesCacheAlone ==
    [][\A r \in AllRequests :
          (/\ ephCall[r].pc = "await" /\ ephCall'[r].pc = "idle"
           /\ ephFailures' > ephFailures /\ ephCache'.exists) =>
              LET messages == ephHeap'[ephCache'.ref].messages
                  branches == ephHeap'[ephCache'.ref].branches
              IN /\ Len(messages) = ephCache'.lastProcessedIndex
                 /\ \A i \in 1..Len(messages) : messages[i].id = messageIdOf(i - 1)
                 /\ \A b \in 1..Len(branches) :
                      branches[b].messageCount = countIn(messages, branches[b].id)]_vars

\* C27: when two /demo/route requests for one conversation overlap, the state
\* cached after both have finished holds at most one message for every
\* message id.
C27_OverlapKeepsMessageIdsUnique ==
    (EphAllIdle /\ ephCache.exists /\ ephFailures = 0) =>
        \A i, j \in 1..Len(CachedMessages) :
            CachedMessages[i].id = CachedMessages[j].id => i = j

\* C28: replacing a branch's fact rows is atomic: whatever the interleaving
\* of two re-extractions of one branch, the branch's rows are always the rows
\* written by one extraction (never a union, never a key twice), and a
\* branch that has rows is never seen without them.
FactRowsOf(rows, branchId) ==
    LET own == SelectSeq(rows, LAMBDA row : row.branchId = branchId)
    IN [i \in 1..Len(own) |-> [key |-> own[i].key, value |-> own[i].value]]

C28_RowsOfOneExtraction ==
    \A b \in 1..Len(dbBranches) : FactRowsOf(dbFacts, dbBranches[b].id) \in JobRows

C28_RowsNeverMissing ==
    [][\A b \in 1..Len(dbBranches) :
          FactRowsOf(dbFacts, dbBranches[b].id) # <<>> =>
              FactRowsOf(dbFacts', dbBranches[b].id) # <<>>]_vars

C28_FactReplacementIsAtomic ==
    [][/\ \A b \in 1..Len(dbBranches') :
             FactRowsOf(dbFacts', dbBranches'[b].id) \in JobRows
       /\ \A b \in 1..Len(dbBranches) :
             FactRowsOf(dbFacts, dbBranches[b].id) # <<>> =>
                 FactRowsOf(dbFacts', dbBranches[b].id) # <<>>]_vars

\* C29: every message of a returned ephemeral state carries the id of a
\* branch of that state, whatever the input, a conversation that opens with
\* an assistant message included.
C29_EveryMessageHasItsBranch ==
    (ephCache.exists /\ EphAllIdle) =>
        \A i \in 1..Len(CachedMessages) :
            findBranch(CachedBranches, CachedMessages[i].branchId) # 0

\* C30: whenever load-branches has resolved a current branch, exactly one of
\* the summaries handed to classify-route is flagged current, and it is the
\* resolved branch, for any number of branches and any maximum of at least 1.
C30_OneSummaryIsCurrent ==
    (persReq.pc = "classify-route" /\ persReq.currentBranch # None) =>
        /\ Cardinality({i \in 1..Len(persReq.branches) :
                           persReq.branches[i].isCurrentBranch}) = 1
        /\ \A i \in 1..Len(persReq.branches) :
              persReq.branches[i].isCurrentBranch =>
                  persReq.branches[i].id = persReq.currentBranch

====
